---- MODULE Spec2Model ----
(***************************************************************************)
(* Model of src/js/utils/range.ts of prosemirror-noting: the range        *)
(* algebra (findOverlappingRangeIndex, mergeRange, mergeRanges,           *)
(* diffRanges), the validation-input projector and differ                 *)
(* (getValRangesFromRange, diffValidationInputs) and the transaction      *)
(* range mapper (mapRangeThroughTransactions).                            *)
(*                                                                         *)
(* Arrays are sequences (1-based, where the source is 0-based), strings   *)
(* are sequences of characters, and the range objects handed to           *)
(* mapRangeThroughTransactions live in a heap so that Object.assign on an *)
(* input object is visible.                                               *)
(***************************************************************************)
EXTENDS Integers, Sequences, FiniteSets, TLC

VARIABLES pc, op, first, second, range, valInputs, secondValInputs,
          heap, pre, refs, time, trs, out, outRefs, stack

vars == <<pc, op, first, second, range, valInputs, secondValInputs,
          heap, pre, refs, time, trs, out, outRefs, stack>>

(* ------------------------------ bounds --------------------------------- *)
\* largest document position of an input range
MaxPos == 3
\* longest input of mergeRanges, and of diffRanges called with one set twice
MaxLen == 3
\* longest first set of diffRanges
MaxFirstLen == 1
\* longest second set of diffRanges
MaxSecondLen == 2
\* largest position of the ranges diffRanges is run on step by step
MaxStackPos == 2
\* longest text of a validation input
MaxStrLen == 3
\* longest collection of validation inputs
MaxInputs == 1
\* largest position of a range object mapped through the history
MaxMapPos == 1
\* longest transaction history
MaxLog == 2
\* largest transaction time
MaxTime == 1
\* number of range objects the caller holds
MaxObjs == 2
\* longest array of ranges mapped through the history
MaxRefs == 2

(* --------------------------- Range algebra ----------------------------- *)
\* Array.prototype.findIndex returns -1 when no element matches; with 1-based
\* sequences the model uses 0.
NotFound == 0

Min(S) == CHOOSE x \in S : \A y \in S : x <= y

\* the predicate handed to findIndex
overlapsLocalRange(range_, localRange) ==
    \/ (localRange.from <= range_.from /\ localRange.to >= range_.from)
    \/ (localRange.to >= range_.to /\ localRange.from <= range_.to)
    \/ (localRange.from >= range_.from /\ localRange.to <= range_.to)

findOverlappingRangeIndex(range_, ranges) ==
    LET hits == {i \in 1..Len(ranges) : overlapsLocalRange(range_, ranges[i])}
    IN  IF hits = {} THEN NotFound ELSE Min(hits)

mergeRange(range1, range2) ==
    [from |-> IF range1.from < range2.from THEN range1.from ELSE range2.from,
     to   |-> IF range1.to > range2.to THEN range1.to ELSE range2.to]

\* the reducer of mergeRanges
mergeRangesStep(acc, range_) ==
    LET index == findOverlappingRangeIndex(range_, acc)
    IN  IF index = NotFound
        THEN Append(acc, range_)
        ELSE [acc EXCEPT ![index] = mergeRange(range_, acc[index])]

RECURSIVE mergeRangesFrom(_, _, _)
mergeRangesFrom(acc, ranges, i) ==
    IF i > Len(ranges) THEN acc
    ELSE mergeRangesFrom(mergeRangesStep(acc, ranges[i]), ranges, i + 1)

mergeRanges(ranges) == mergeRangesFrom(<<>>, ranges, 1)

\* { from: range.from, to: secondRangesMerged[overlap].from }
firstShortenedRange(range_, overlappingRange) ==
    [from |-> range_.from, to |-> overlappingRange.from]

\* a latter segment that starts one past the start of the range instead of one
\* past the end of the overlapping range
latterSegmentFromRangeStart(range_, overlappingRange) ==
    [from |-> range_.from + 1, to |-> range_.to]

\* { from: overlappingRange.to + 1, to: range.to }
latterSegment(range_, overlappingRange) ==
    [from |-> overlappingRange.to + 1, to |-> range_.to]

RECURSIVE diffRanges(_, _), diffRangesFrom(_, _, _, _)
\* the reduce over firstRangesMerged, from its i-th element on
diffRangesFrom(acc, firstRangesMerged, secondRangesMerged, i) ==
    IF i > Len(firstRangesMerged) THEN acc
    ELSE
      LET range_  == firstRangesMerged[i]
          overlap == findOverlappingRangeIndex(range_, secondRangesMerged)
          next ==
            IF overlap = NotFound THEN Append(acc, range_)
            ELSE
              LET overlappingRange == secondRangesMerged[overlap]
                  shortened == firstShortenedRange(range_, overlappingRange)
              IN  IF overlappingRange.to >= range_.to
                  THEN IF shortened.from = shortened.to
                       THEN acc
                       ELSE Append(acc, shortened)
                  ELSE Append(acc, shortened) \o
                       diffRanges(<<latterSegment(range_, overlappingRange)>>,
                                  secondRangesMerged)
      IN  diffRangesFrom(next, firstRangesMerged, secondRangesMerged, i + 1)

diffRanges(firstRanges, secondRanges) ==
    diffRangesFrom(<<>>, mergeRanges(firstRanges), mergeRanges(secondRanges), 1)

(* ------------------- Validation inputs: project, diff ------------------- *)
validationInputToRange(vi) == [from |-> vi.from, to |-> vi.from + Len(vi.str)]

\* String.prototype.slice(start, end): a negative index counts from the end,
\* indices are clamped to the string, and start >= end gives "".
sliceIndex(n, len) ==
    IF n < 0 THEN (IF len + n < 0 THEN 0 ELSE len + n)
    ELSE (IF n > len THEN len ELSE n)

slice(str, start, end) ==
    LET s == sliceIndex(start, Len(str))
        e == sliceIndex(end, Len(str))
    IN  IF s >= e THEN <<>> ELSE SubSeq(str, s + 1, e)

\* the reducer of getValRangesFromRange
getValRangesStep(acc, range_, vi) ==
    IF range_.from >= vi.from /\ range_.from <= vi.from + Len(vi.str)
    THEN LET from == range_.from - vi.from
             to   == range_.from - vi.from + (range_.to - range_.from)
             str  == slice(vi.str, IF from > 0 THEN from - 1 ELSE 0, to)
         IN  IF str # <<>>
             THEN Append(acc, [vi EXCEPT !.from = range_.from,
                                         !.to = range_.to,
                                         !.str = str])
             ELSE acc
    ELSE acc

RECURSIVE getValRangesFrom(_, _, _, _)
getValRangesFrom(acc, range_, valRanges, i) ==
    IF i > Len(valRanges) THEN acc
    ELSE getValRangesFrom(getValRangesStep(acc, range_, valRanges[i]),
                          range_, valRanges, i + 1)

getValRangesFromRange(range_, valRanges) ==
    getValRangesFrom(<<>>, range_, valRanges, 1)

\* lodash flatten of an array of arrays
RECURSIVE flatMap(_)
flatMap(arrays) ==
    IF arrays = <<>> THEN <<>> ELSE Head(arrays) \o flatMap(Tail(arrays))

diffValidationInputs(firstValInputs, secondValInputs_) ==
    LET firstR  == [i \in 1..Len(firstValInputs) |->
                      validationInputToRange(firstValInputs[i])]
        secondR == [i \in 1..Len(secondValInputs_) |->
                      validationInputToRange(secondValInputs_[i])]
        d == diffRanges(firstR, secondR)
    IN  flatMap([i \in 1..Len(d) |-> getValRangesFromRange(d[i], firstValInputs)])

(* --------------------- Transaction range mapper ------------------------ *)
\* tr.mapping.map(pos) for a transaction with one replace step: the step
\* replaces oldSize positions at start by newSize positions (prosemirror's
\* StepMap with the default association to the right).
mappingMap(mapping, pos) ==
    LET end == mapping.start + mapping.oldSize
    IN  IF mapping.start > pos THEN pos
        ELSE IF pos <= end
             THEN LET side == IF mapping.oldSize = 0 THEN 1
                              ELSE IF pos = mapping.start THEN -1
                              ELSE 1
                  IN  mapping.start + (IF side < 0 THEN 0 ELSE mapping.newSize)
             ELSE pos + mapping.newSize - mapping.oldSize

\* trs.findIndex(tr => tr.time === time)
initialTransactionIndex(time_, trs_) ==
    LET hits == {i \in 1..Len(trs_) : trs_[i].time = time_}
    IN  IF hits = {} THEN NotFound ELSE Min(hits)

\* trs.slice(index).reduce((acc, tr) => ({from: map(acc.from), to: map(acc.to)}), range)
RECURSIVE mapThroughFrom(_, _, _)
mapThroughFrom(acc, trs_, i) ==
    IF i > Len(trs_) THEN acc
    ELSE mapThroughFrom([from |-> mappingMap(trs_[i].mapping, acc.from),
                         to   |-> mappingMap(trs_[i].mapping, acc.to)],
                        trs_, i + 1)

\* a callback that hands back the range untouched, instead of undefined, when
\* no transaction has the given time
mapRangeCallbackKeepsStale(h, ref, time_, trs_) ==
    LET index == initialTransactionIndex(time_, trs_)
    IN  IF Len(trs_) = 1 \/ index = NotFound THEN [heap |-> h, ret |-> <<ref>>]
        ELSE [heap |-> [h EXCEPT ![ref] = mapThroughFrom(h[ref], trs_, index)],
              ret  |-> <<ref>>]

\* The callback of ranges.map for the object ref, run on the heap h: the heap
\* after it, and the array element it returns (<<>> stands for undefined,
\* which compact() drops).
mapRangeCallback(h, ref, time_, trs_) ==
    LET index == initialTransactionIndex(time_, trs_)
    IN  IF Len(trs_) = 1 THEN [heap |-> h, ret |-> <<ref>>]
        ELSE IF index = NotFound THEN [heap |-> h, ret |-> <<>>]
        ELSE \* Object.assign(range, {...}) writes into the input object
             [heap |-> [h EXCEPT ![ref] = mapThroughFrom(h[ref], trs_, index)],
              ret  |-> <<ref>>]

RECURSIVE mapRangesFrom(_, _, _, _, _)
mapRangesFrom(h, acc, ranges, time_, trs_) ==
    IF ranges = <<>> THEN [heap |-> h, ret |-> acc]
    ELSE LET r == mapRangeCallback(h, Head(ranges), time_, trs_)
         IN  mapRangesFrom(r.heap, acc \o r.ret, Tail(ranges), time_, trs_)

mapRangeThroughTransactions(h, ranges, time_, trs_) ==
    mapRangesFrom(h, <<>>, ranges, time_, trs_)

(* ------------------------------ inputs --------------------------------- *)
Positions == 0..MaxPos

RangesUpTo(max) == {r \in [from : 0..max, to : 0..max] : r.from <= r.to}

Ranges == RangesUpTo(MaxPos)

SeqsUpTo(S, n) == UNION {[1..k -> S] : k \in 0..n}

\* the text of the document, by position
Letters == <<"a", "b", "c", "d", "e", "f", "g", "h">>
DocChar(p) == Letters[(p % Len(Letters)) + 1]

\* the text runs getTextMaps produces: to = from + str.length
ValidationInputs ==
    {[from |-> f, to |-> f + n, str |-> [k \in 1..n |-> DocChar(f + k - 1)]] :
        f \in Positions, n \in 0..MaxStrLen}

\* the range objects of the caller
Objs == 1..MaxObjs

\* one insertion and one deletion, which do not commute
Mappings == {[start |-> 1, oldSize |-> 0, newSize |-> 1],
             [start |-> 2, oldSize |-> 1, newSize |-> 0]}

Transactions == [time : 1..MaxTime, mapping : Mappings]

\* histories in the order the transactions were created
Histories == {h \in SeqsUpTo(Transactions, MaxLog) :
                 \A i \in 1..(Len(h) - 1) : h[i].time <= h[i + 1].time}

NoRange == [from |-> 0, to |-> 0]
NoHeap == [o \in Objs |-> NoRange]


InitMergeRanges ==
    /\ op = "mergeRanges"
    /\ first \in SeqsUpTo(Ranges, MaxLen)
    /\ second = <<>> /\ range = NoRange
    /\ valInputs = <<>> /\ secondValInputs = <<>>
    /\ heap = NoHeap /\ pre = NoHeap /\ refs = <<>> /\ time = 0 /\ trs = <<>>

InitDiffRanges ==
    /\ op = "diffRanges"
    /\ \/ /\ first \in SeqsUpTo(Ranges, MaxFirstLen)
          /\ second \in SeqsUpTo(Ranges, MaxSecondLen)
       \/ /\ first \in SeqsUpTo(Ranges, MaxLen)
          /\ second = first
    /\ range = NoRange
    /\ valInputs = <<>> /\ secondValInputs = <<>>
    /\ heap = NoHeap /\ pre = NoHeap /\ refs = <<>> /\ time = 0 /\ trs = <<>>

InitGetValRangesFromRange ==
    /\ op = "getValRangesFromRange"
    /\ range \in Ranges
    /\ valInputs \in SeqsUpTo(ValidationInputs, MaxInputs)
    /\ first = <<>> /\ second = <<>> /\ secondValInputs = <<>>
    /\ heap = NoHeap /\ pre = NoHeap /\ refs = <<>> /\ time = 0 /\ trs = <<>>

InitDiffValidationInputs ==
    /\ op = "diffValidationInputs"
    /\ valInputs \in SeqsUpTo(ValidationInputs, MaxInputs)
    /\ secondValInputs \in SeqsUpTo(ValidationInputs, MaxInputs)
    /\ first = <<>> /\ second = <<>> /\ range = NoRange
    /\ heap = NoHeap /\ pre = NoHeap /\ refs = <<>> /\ time = 0 /\ trs = <<>>

InitMapRangeThroughTransactions ==
    /\ op = "mapRangeThroughTransactions"
    /\ heap \in [Objs -> RangesUpTo(MaxMapPos)]
    /\ pre = heap
    /\ refs \in SeqsUpTo(Objs, MaxRefs)
    /\ time \in 0..MaxTime
    /\ trs \in Histories
    /\ first = <<>> /\ second = <<>> /\ range = NoRange
    /\ valInputs = <<>> /\ secondValInputs = <<>>

Init ==
    /\ pc = "call" /\ out = <<>> /\ outRefs = <<>> /\ stack = <<>>
    /\ \/ InitMergeRanges
       \/ InitDiffRanges
       \/ InitGetValRangesFromRange
       \/ InitDiffValidationInputs
       \/ InitMapRangeThroughTransactions

(* ------------------------------ actions -------------------------------- *)
inputs == <<op, first, second, range, valInputs, secondValInputs, pre, refs,
            time, trs>>

MergeRanges ==
    /\ pc = "call" /\ op = "mergeRanges"
    /\ out' = mergeRanges(first)
    /\ pc' = "done"
    /\ UNCHANGED <<inputs, heap, outRefs, stack>>

DiffRanges ==
    /\ pc = "call" /\ op = "diffRanges"
    /\ out' = diffRanges(first, second)
    /\ pc' = "done"
    /\ UNCHANGED <<inputs, heap, outRefs, stack>>

GetValRangesFromRange ==
    /\ pc = "call" /\ op = "getValRangesFromRange"
    /\ out' = getValRangesFromRange(range, valInputs)
    /\ pc' = "done"
    /\ UNCHANGED <<inputs, heap, outRefs, stack>>

DiffValidationInputs ==
    /\ pc = "call" /\ op = "diffValidationInputs"
    /\ out' = diffValidationInputs(valInputs, secondValInputs)
    /\ pc' = "done"
    /\ UNCHANGED <<inputs, heap, outRefs, stack>>

MapRangeThroughTransactions ==
    /\ pc = "call" /\ op = "mapRangeThroughTransactions"
    /\ LET r == mapRangeThroughTransactions(heap, refs, time, trs)
       IN  /\ heap' = r.heap
           /\ outRefs' = r.ret
    /\ pc' = "done"
    /\ UNCHANGED <<inputs, out, stack>>

Next ==
    \/ MergeRanges
    \/ DiffRanges
    \/ GetValRangesFromRange
    \/ DiffValidationInputs
    \/ MapRangeThroughTransactions

Spec == Init /\ [][Next]_vars

(* ------------- diffRanges, one reducer step or call at a time ----------- *)
\* a call of diffRanges in progress: its merged sets, the index the reduce
\* has reached and its accumulator
Frame(firstRanges, secondRanges) ==
    [firstRangesMerged  |-> mergeRanges(firstRanges),
     secondRangesMerged |-> mergeRanges(secondRanges),
     i   |-> 1,
     acc |-> <<>>]

Top == stack[Len(stack)]
TopRange == Top.firstRangesMerged[Top.i]
TopOverlap == findOverlappingRangeIndex(TopRange, Top.secondRangesMerged)
Reducing == pc = "run" /\ Top.i <= Len(Top.firstRangesMerged)
SetTop(frame) == [stack EXCEPT ![Len(stack)] = frame]

\* diffRanges is called on the first set at hand, against a second set
DiffCall ==
    /\ pc = "call" /\ op = "diffRanges"
    /\ \E secondRanges \in SeqsUpTo(RangesUpTo(MaxStackPos), MaxSecondLen) :
          /\ second' = secondRanges
          /\ stack' = <<Frame(first, secondRanges)>>
    /\ pc' = "run"
    /\ UNCHANGED <<op, first, range, valInputs, secondValInputs, pre, refs,
                   time, trs, heap, out, outRefs>>

\* overlap === -1
DiffKeep ==
    /\ Reducing /\ TopOverlap = NotFound
    /\ stack' = SetTop([Top EXCEPT !.acc = Append(@, TopRange), !.i = @ + 1])
    /\ UNCHANGED <<pc, inputs, heap, out, outRefs>>

\* overlappingRange.to >= range.to
DiffChop ==
    /\ Reducing /\ TopOverlap # NotFound
    /\ LET overlappingRange == Top.secondRangesMerged[TopOverlap]
           shortened == firstShortenedRange(TopRange, overlappingRange)
       IN  /\ overlappingRange.to >= TopRange.to
           /\ stack' = SetTop([Top EXCEPT
                                 !.acc = IF shortened.from = shortened.to
                                         THEN @ ELSE Append(@, shortened),
                                 !.i = @ + 1])
    /\ UNCHANGED <<pc, inputs, heap, out, outRefs>>

\* the recursive call: the reducing frame waits at its index for the result
DiffSplit ==
    /\ Reducing /\ TopOverlap # NotFound
    /\ LET overlappingRange == Top.secondRangesMerged[TopOverlap]
           shortened == firstShortenedRange(TopRange, overlappingRange)
       IN  /\ overlappingRange.to < TopRange.to
           /\ stack' = Append(SetTop([Top EXCEPT !.acc = Append(@, shortened)]),
                              Frame(<<latterSegment(TopRange, overlappingRange)>>,
                                    Top.secondRangesMerged))
    /\ UNCHANGED <<pc, inputs, heap, out, outRefs>>

\* a recursive call returns into the concat of its caller
DiffReturn ==
    /\ pc = "run" /\ Top.i > Len(Top.firstRangesMerged) /\ Len(stack) > 1
    /\ LET caller == stack[Len(stack) - 1]
       IN  stack' = Append(SubSeq(stack, 1, Len(stack) - 2),
                           [caller EXCEPT !.acc = @ \o Top.acc, !.i = @ + 1])
    /\ UNCHANGED <<pc, inputs, heap, out, outRefs>>

\* the outermost call returns
DiffFinish ==
    /\ pc = "run" /\ Top.i > Len(Top.firstRangesMerged) /\ Len(stack) = 1
    /\ out' = Top.acc
    /\ stack' = <<>>
    /\ pc' = "done"
    /\ UNCHANGED <<inputs, heap, outRefs>>

DiffInit ==
    /\ pc = "call" /\ out = <<>> /\ outRefs = <<>> /\ stack = <<>>
    /\ op = "diffRanges"
    /\ first \in SeqsUpTo(RangesUpTo(MaxStackPos), MaxFirstLen)
    /\ second = <<>>
    /\ range = NoRange
    /\ valInputs = <<>> /\ secondValInputs = <<>>
    /\ heap = NoHeap /\ pre = NoHeap /\ refs = <<>> /\ time = 0 /\ trs = <<>>

DiffNext ==
    \/ DiffCall
    \/ DiffKeep
    \/ DiffChop
    \/ DiffSplit
    \/ DiffReturn
    \/ DiffFinish

DiffSpec == DiffInit /\ [][DiffNext]_vars /\ WF_vars(DiffNext)

\* the stepwise run returns what diffRanges returns
DiffStepsAgree == pc = "done" => out = diffRanges(first, second)

(* ------------------------------ claims --------------------------------- *)
Returned(o) == pc = "done" /\ op = o

\* every range has from < to
Strict(ranges) == \A i \in 1..Len(ranges) : ranges[i].from < ranges[i].to

\* no record of the history has the given time
Unmatched == \A i \in 1..Len(trs) : trs[i].time # time

\* pos mapped through the records k..Len(trs) of the history, in log order
RECURSIVE Replayed(_, _)
Replayed(pos, k) ==
    IF k > Len(trs) THEN pos ELSE Replayed(mappingMap(trs[k].mapping, pos), k + 1)

\* the validation inputs do not overlap one another
NonOverlapping(vis) ==
    \A i, j \in 1..Len(vis) :
        i # j => ~overlapsLocalRange(validationInputToRange(vis[i]),
                                     validationInputToRange(vis[j]))

\* C1: no two distinct ranges of mergeRanges' result overlap each other under
\* findOverlappingRangeIndex, whatever the order of the input.
C1_MergedRangesDisjoint ==
    Returned("mergeRanges") =>
        \A i, j \in 1..Len(out) :
            i # j => findOverlappingRangeIndex(out[i], <<out[j]>>) = NotFound

\* C2: mergeRanges is idempotent: merging its result again gives the same
\* sequence.
C2_MergeIdempotent ==
    Returned("mergeRanges") => mergeRanges(out) = out

\* C3: diffRanges of a set of ranges with from < to against itself is empty.
C3_DiffSelfEmpty ==
    (Returned("diffRanges") /\ first = second /\ Strict(first)) => out = <<>>

\* C4: diffRanges of sets of ranges with from < to returns no range with
\* from = to.
C4_DiffNoEmptyRange ==
    (Returned("diffRanges") /\ Strict(first) /\ Strict(second)) =>
        \A i \in 1..Len(out) : out[i].from # out[i].to

\* C5 as stated: when no record of the history has the given time, every
\* input range is omitted, for every length of the history.
C5_UnmatchedOmitsAll ==
    (Returned("mapRangeThroughTransactions") /\ Unmatched) => outRefs = <<>>

\* C5 as amended: when no record of the history has the given time and the
\* history does not have exactly one record, every input range is omitted; a
\* history of exactly one record returns every input range, unchanged, for
\* any time; and the result has one entry for each range that is not omitted.
C5_UnmatchedOmitsUnlessSingle ==
    Returned("mapRangeThroughTransactions") =>
        /\ (Unmatched /\ Len(trs) # 1) => outRefs = <<>>
        /\ Len(trs) = 1 => (outRefs = refs /\ heap = pre)
        /\ ~(Unmatched /\ Len(trs) # 1) => Len(outRefs) = Len(refs)

C5_Witness ==
    /\ Returned("mapRangeThroughTransactions")
    /\ Unmatched /\ Len(trs) >= 2 /\ refs # <<>> /\ outRefs = <<>>

\* C6: with a history of two or more records whose first record with the
\* given time is at index i, the result holds, for each input range in input
\* order, its from and to as they were at the call mapped through the records
\* i .. last in log order.
C6_MappedThroughLaterEdits ==
    (Returned("mapRangeThroughTransactions") /\ Len(trs) >= 2 /\ ~Unmatched) =>
        LET i == Min({k \in 1..Len(trs) : trs[k].time = time})
        IN  /\ Len(outRefs) = Len(refs)
            /\ \A k \in 1..Len(refs) :
                  heap[outRefs[k]] = [from |-> Replayed(pre[refs[k]].from, i),
                                      to   |-> Replayed(pre[refs[k]].to, i)]

\* C7: no operation changes a range object passed to it: after the call every
\* input object holds the from and to it held before.
C7_InputsNotMutated ==
    pc = "done" => heap = pre

\* C8: for non-overlapping validation inputs with to - from = length(str),
\* every record returned by getValRangesFromRange and by diffValidationInputs
\* has to - from = length(str).
C8_LengthInvariantKept ==
    (/\ Returned("getValRangesFromRange") \/ Returned("diffValidationInputs")
     /\ NonOverlapping(valInputs) /\ NonOverlapping(secondValInputs)) =>
        \A i \in 1..Len(out) : out[i].to - out[i].from = Len(out[i].str)

\* C9: diffRanges of sets of ranges with from < to returns only ranges with
\* from <= to.
C9_DiffRangesOrdered ==
    (Returned("diffRanges") /\ Strict(first) /\ Strict(second)) =>
        \A i \in 1..Len(out) : out[i].from <= out[i].to

\* the first-set range the outermost call of diffRanges is reducing
OuterRange == stack[1].firstRangesMerged[stack[1].i]

\* the ranges of a set that overlap the range
Overlapping(range_, ranges) ==
    {j \in 1..Len(ranges) : overlapsLocalRange(range_, ranges[j])}

\* every recursive call in progress is on one range, whose from is greater
\* than the from of the range being split and not greater than its to
C10_Advances ==
    \A k \in 2..Len(stack) :
        LET split == stack[k - 1].firstRangesMerged[stack[k - 1].i]
        IN  /\ Len(stack[k].firstRangesMerged) = 1
            /\ stack[k].firstRangesMerged[1].from > split.from
            /\ stack[k].firstRangesMerged[1].from <= split.to

\* the recursion depth for a first-set range is at most the number of
\* second-set ranges that overlap it
C10_DepthBounded ==
    Len(stack) >= 2 =>
        /\ Len(stack) - 1 <= Cardinality(Overlapping(OuterRange, second))
        /\ Len(stack) - 1 <=
              Cardinality(Overlapping(OuterRange, stack[1].secondRangesMerged))

\* C10: diffRanges terminates on ranges with from <= to: every recursive call
\* is on a single remainder whose from is past the from of the range being
\* split and not past its to, and the depth of the recursion for one first-set
\* range is at most the number of second-set ranges overlapping it.
C10_DiffTerminates ==
    /\ [](C10_Advances /\ C10_DepthBounded)
    /\ <>(pc = "done")

C10_Witness == Len(stack) >= 3

====
